---- MODULE Spec2Model ----
(***************************************************************************)
(* Model of the FinancialProjection document controller                    *)
(* (financial_projections/doctype/financial_projection/                    *)
(* financial_projection.py).                                               *)
(*                                                                         *)
(* The document's fields are the state.  A save runs the validate hook and *)
(* then the before_save hook, which recomputes every monthly row and the   *)
(* nine summary totals.  Unset fields (None) are modelled by 0 for numbers *)
(* and "" for strings: the code reads every field through `x or default`,  *)
(* a truth test or flt(), all of which treat None and 0 / "" alike.        *)
(*                                                                         *)
(* Currency amounts are exact: they are held as integer multiples of       *)
(* 1/Unit of a currency unit, Unit being the least common multiple of the  *)
(* implementation_months values in use, so that the division of a one-time *)
(* amount over its implementation months loses nothing.  Percentages in    *)
(* use are such that the compounding is exact as well.                     *)
(***************************************************************************)
EXTENDS Integers, Sequences, FiniteSets, TLC

VARIABLES
    start_date,             \* month ordinal of the first projected month
    projection_years,       \* 0 = unset
    cash_on_hand_start,
    cash_receipt_delay,
    cost_of_revenue_delay,
    opex_delay,
    capex_delay,
    revenue_assumptions,    \* child tables: sequences of line records
    cost_assumptions,
    staff_assumptions,
    capex_assumptions,
    monthly_projections,    \* child table of computed rows
    summary,                \* the nine total_* fields
    month_locals,           \* history: the locals of each iteration of the last month loop
    thrown,                 \* message of the error the last save raised, "" if none
    runs                    \* history: saves since the fields were last edited

inputs == <<start_date, projection_years, cash_on_hand_start, cash_receipt_delay,
            cost_of_revenue_delay, opex_delay, capex_delay, revenue_assumptions,
            cost_assumptions, staff_assumptions, capex_assumptions>>

outputs == <<monthly_projections, summary, month_locals>>

vars == <<inputs, outputs, thrown, runs>>

-----------------------------------------------------------------------------
(* Bounds and program constants *)

MaxYears == 4
MaxRuns == 2

MonthsPerYear == 12
DefaultProjectionYears == 3
MaxDelay == 6

ImplementationMonthsChoices == {0, 3}

Unit ==
    CHOOSE u \in 1..MonthsPerYear :
        /\ \A k \in ImplementationMonthsChoices \ {0} : u % k = 0
        /\ \A v \in 1..(u - 1) : \E k \in ImplementationMonthsChoices \ {0} : v % k # 0

\* flt() of a currency field: the amount in 1/Unit units
Money(x) == x * Unit

-----------------------------------------------------------------------------
(* Assumption lines *)

RevenueLine(t, c, s, p, inc, impl) ==
    [revenue_type |-> t, calculation_type |-> c, monthly_new_sales |-> s,
     price_per_unit |-> p, annual_price_increase |-> inc, implementation_months |-> impl]

CostLine(t, c, cpu, pct, rel) ==
    [cost_type |-> t, calculation_type |-> c, cost_per_unit |-> cpu,
     cost_percentage |-> pct, related_revenue_type |-> rel]

StaffLine(t, sal, ben, veh, inc, start) ==
    [position_title |-> t, monthly_salary |-> sal, monthly_benefits |-> ben,
     vehicle_allowance |-> veh, annual_increase |-> inc, start_month |-> start]

CapexLine(a, c, pm, py) ==
    [asset_name |-> a, cost |-> c, purchase_month |-> pm, purchase_year |-> py]

RevenueScenarios ==
    { <<>>,
      << RevenueLine("A", "Recurring", 10, 100, 0, 0) >>,
      << RevenueLine("A", "One-Time", 10, 100, 0, 3) >>,
      << RevenueLine("A", "Recurring", 10, 100, 100, 0),
         RevenueLine("A", "One-Time", 0, 100, 0, 3) >>,
      << RevenueLine("B", "One-Time", 10, 100, 0, 0),
         RevenueLine("A", "", 5, 100, 0, 0) >>,
      << RevenueLine("", "Recurring", 10, 100, 0, 0),
         RevenueLine("B", "Recurring", 5, 200, 0, 0) >> }

CostScenarios ==
    { <<>>,
      << CostLine("Hosting", "Per Instance", 20, 0, "A"),
         CostLine("Support", "Per Instance", 20, 0, ""),
         CostLine("", "Fixed Monthly", 40, 0, ""),
         CostLine("Misc", "", 40, 0, "A") >>,
      << CostLine("Commission", "Percentage of Revenue", 0, 50, "A"),
         CostLine("Rent", "Fixed Monthly", 30, 0, "") >> }

StaffScenarios ==
    { <<>>,
      << StaffLine("Engineer", 1000, 100, 50, 100, 0),
         StaffLine("Sales", 500, 0, 0, 0, 14),
         StaffLine("", 900, 0, 0, 0, 1) >> }

CapexScenarios ==
    { << CapexLine("Server", 5000, 2, 1),
         CapexLine("Desk", 700, 0, 0),
         CapexLine("", 900, 1, 1),
         CapexLine("Van", 400, 6, 2),
         CapexLine("Plant", 300, 12, 4) >> }

\* <<cash_receipt_delay, cost_of_revenue_delay, opex_delay, capex_delay>>
DelayScenarios ==
    { <<0, 0, 0, 0>>, <<2, 1, 3, 2>>, <<0, 0, MaxDelay + 1, 0>>, <<1, 0, 0, -1>> }

ProjectionYearsChoices == {-1, 0, 1, MaxYears}

StartDateChoices == {2024 * MonthsPerYear + 1}

CashOnHandChoices == {500}

-----------------------------------------------------------------------------
(* Python dict *)

EmptyDict == [k \in {} |-> 0]

DictGet(d, k, default) == IF k \in DOMAIN d THEN d[k] ELSE default

DictSet(d, k, v) == [x \in (DOMAIN d) \cup {k} |-> IF x = k THEN v ELSE d[x]]

\* base * (1 + pct/100) ** n
RECURSIVE Compound(_, _, _)
Compound(base, pct, n) ==
    IF n = 0 THEN base ELSE Compound((base * (100 + pct)) \div 100, pct, n - 1)

-----------------------------------------------------------------------------
(* validate_delays: the message of the error it raises, "" if it raises none *)

\* variant: the lower bound is not tested
DelayOutOfRange_upper_only(delay) == delay # 0 /\ delay > MaxDelay

DelayOutOfRange(delay) == delay # 0 /\ (delay < 0 \/ delay > MaxDelay)

validate_delays ==
    IF DelayOutOfRange(opex_delay) THEN "OPEX Delay must be between 0 and 6 months"
    ELSE IF DelayOutOfRange(capex_delay) THEN "CAPEX Delay must be between 0 and 6 months"
    ELSE ""

-----------------------------------------------------------------------------
(* Revenue *)

\* variant: the new sales replace the carried count
AddSales_replace(count, new_sales) == new_sales

\* variant: the new sales are taken off the carried count
AddSales_subtract(count, new_sales) == count - new_sales

AddSales(count, new_sales) == count + new_sales

get_monthly_instances(revenue_line, month_num, year_num, carried_instances) ==
    LET key == revenue_line.revenue_type
        new_sales == revenue_line.monthly_new_sales
        initialised == IF key \in DOMAIN carried_instances
                       THEN carried_instances
                       ELSE DictSet(carried_instances, key, 0)
        updated == DictSet(initialised, key, AddSales(initialised[key], new_sales))
    IN  [instances |-> updated[key], carried_instances |-> updated]

get_monthly_price(revenue_line, year_num) ==
    LET base_price == Money(revenue_line.price_per_unit)
    IN  IF revenue_line.annual_price_increase # 0 /\ year_num > 1
        THEN Compound(base_price, revenue_line.annual_price_increase, year_num - 1)
        ELSE base_price

\* variant: the last month of the spread is left out
InSpread_strict(month_in_year, implementation_months) == month_in_year < implementation_months

InSpread(month_in_year, implementation_months) == month_in_year <= implementation_months

\* the monthly_revenue of one line (the if/elif chain on calculation_type)
line_monthly_revenue(revenue_line, instances, price, month_in_year) ==
    IF revenue_line.calculation_type = "Recurring" THEN instances * price
    ELSE IF revenue_line.calculation_type = "One-Time" THEN
        IF revenue_line.implementation_months # 0 /\ revenue_line.implementation_months > 0
        THEN IF InSpread(month_in_year, revenue_line.implementation_months)
             THEN (instances * price) \div revenue_line.implementation_months
             ELSE 0
        ELSE IF month_in_year = 1 THEN instances * price ELSE 0
    ELSE 0

RECURSIVE revenue_loop(_, _, _, _, _)
revenue_loop(i, month_num, year_num, month_in_year, acc) ==
    IF i > Len(revenue_assumptions) THEN acc
    ELSE LET revenue_line == revenue_assumptions[i] IN
         IF revenue_line.revenue_type = ""
         THEN revenue_loop(i + 1, month_num, year_num, month_in_year,
                  [acc EXCEPT !.instances = Append(@, 0),
                              !.line_revenue = Append(@, 0)])
         ELSE LET got == get_monthly_instances(revenue_line, month_num, year_num,
                                               acc.carried_instances)
                  price == get_monthly_price(revenue_line, year_num)
                  monthly_revenue == line_monthly_revenue(revenue_line, got.instances,
                                                          price, month_in_year)
              IN  revenue_loop(i + 1, month_num, year_num, month_in_year,
                      [total_revenue |-> acc.total_revenue + monthly_revenue,
                       carried_instances |-> got.carried_instances,
                       instances |-> Append(acc.instances, got.instances),
                       line_revenue |-> Append(acc.line_revenue, monthly_revenue)])

calculate_monthly_revenue(month_num, year_num, month_in_year, carried_instances) ==
    revenue_loop(1, month_num, year_num, month_in_year,
        [total_revenue |-> 0, carried_instances |-> carried_instances,
         instances |-> <<>>, line_revenue |-> <<>>])

-----------------------------------------------------------------------------
(* Cost of revenue *)

get_cost_instances(cost_line, month_num, year_num, carried_instances) ==
    IF cost_line.related_revenue_type # ""
    THEN [instances |-> DictGet(carried_instances, cost_line.related_revenue_type, 0),
          carried_instances |-> carried_instances]
    ELSE [instances |-> 0, carried_instances |-> carried_instances]

\* rows is self.monthly_projections at the time of the call
get_related_revenue(month_num, revenue_type, rows) ==
    IF rows # <<>> /\ Len(rows) >= month_num
    THEN IF month_num <= Len(rows) THEN rows[month_num].revenue ELSE 0
    ELSE 0

RECURSIVE cost_loop(_, _, _, _, _, _)
cost_loop(i, month_num, year_num, month_in_year, rows, acc) ==
    IF i > Len(cost_assumptions) THEN acc
    ELSE LET cost_line == cost_assumptions[i] IN
         IF cost_line.cost_type = ""
         THEN cost_loop(i + 1, month_num, year_num, month_in_year, rows,
                  [acc EXCEPT !.line_cost = Append(@, 0)])
         ELSE LET got == get_cost_instances(cost_line, month_num, year_num,
                                            acc.carried_instances)
                  monthly_cost ==
                      IF cost_line.calculation_type = "Per Instance"
                      THEN got.instances * Money(cost_line.cost_per_unit)
                      ELSE IF cost_line.calculation_type = "Fixed Monthly"
                      THEN Money(cost_line.cost_per_unit)
                      ELSE IF cost_line.calculation_type = "Percentage of Revenue"
                      THEN (get_related_revenue(month_num, cost_line.related_revenue_type, rows)
                              * cost_line.cost_percentage) \div 100
                      ELSE 0
              IN  cost_loop(i + 1, month_num, year_num, month_in_year, rows,
                      [total_cost |-> acc.total_cost + monthly_cost,
                       carried_instances |-> got.carried_instances,
                       line_cost |-> Append(acc.line_cost, monthly_cost)])

calculate_monthly_cost(month_num, year_num, month_in_year, carried_instances, rows) ==
    cost_loop(1, month_num, year_num, month_in_year, rows,
        [total_cost |-> 0, carried_instances |-> carried_instances, line_cost |-> <<>>])

-----------------------------------------------------------------------------
(* Operating expenses and capital expenditure *)

RECURSIVE opex_loop(_, _, _, _)
opex_loop(i, month_num, year_num, total_opex) ==
    IF i > Len(staff_assumptions) THEN total_opex
    ELSE LET staff_line == staff_assumptions[i]
             start_month == IF staff_line.start_month # 0 THEN staff_line.start_month ELSE 1
             base_salary == IF staff_line.annual_increase # 0 /\ year_num > 1
                            THEN Compound(Money(staff_line.monthly_salary),
                                          staff_line.annual_increase, year_num - 1)
                            ELSE Money(staff_line.monthly_salary)
             monthly_cost == base_salary + Money(staff_line.monthly_benefits)
                                + Money(staff_line.vehicle_allowance)
         IN  IF staff_line.position_title = "" THEN opex_loop(i + 1, month_num, year_num, total_opex)
             ELSE IF month_num >= start_month
             THEN opex_loop(i + 1, month_num, year_num, total_opex + monthly_cost)
             ELSE opex_loop(i + 1, month_num, year_num, total_opex)

calculate_monthly_opex(month_num, year_num, month_in_year) ==
    opex_loop(1, month_num, year_num, 0)

\* variant: the purchase year is not made 0-based
target_month_year_not_shifted(capex_line) ==
    LET purchase_month == IF capex_line.purchase_month # 0 THEN capex_line.purchase_month ELSE 1
        purchase_year == IF capex_line.purchase_year # 0 THEN capex_line.purchase_year ELSE 1
    IN  purchase_year * MonthsPerYear + purchase_month

target_month(capex_line) ==
    LET purchase_month == IF capex_line.purchase_month # 0 THEN capex_line.purchase_month ELSE 1
        purchase_year == IF capex_line.purchase_year # 0 THEN capex_line.purchase_year ELSE 1
    IN  (purchase_year - 1) * MonthsPerYear + purchase_month

RECURSIVE capex_loop(_, _, _)
capex_loop(i, month_num, acc) ==
    IF i > Len(capex_assumptions) THEN acc
    ELSE LET capex_line == capex_assumptions[i] IN
         IF capex_line.asset_name = ""
         THEN capex_loop(i + 1, month_num, [acc EXCEPT !.line_capex = Append(@, 0)])
         ELSE IF month_num = target_month(capex_line)
         THEN capex_loop(i + 1, month_num,
                  [total_capex |-> acc.total_capex + Money(capex_line.cost),
                   line_capex |-> Append(acc.line_capex, Money(capex_line.cost))])
         ELSE capex_loop(i + 1, month_num, [acc EXCEPT !.line_capex = Append(@, 0)])

calculate_monthly_capex(month_num, year_num, month_in_year) ==
    capex_loop(1, month_num, [total_capex |-> 0, line_capex |-> <<>>])

-----------------------------------------------------------------------------
(* Cash timing *)

calculate_cash_receipts(month_num, revenue) ==
    IF cash_receipt_delay = 0 THEN revenue
    ELSE IF month_num > cash_receipt_delay THEN revenue ELSE 0

calculate_cash_payments_cor(month_num, cost) ==
    IF cost_of_revenue_delay = 0 THEN cost
    ELSE IF month_num > cost_of_revenue_delay THEN cost ELSE 0

calculate_cash_payments_opex(month_num, opex) ==
    IF opex_delay = 0 THEN opex
    ELSE IF month_num > opex_delay THEN opex ELSE 0

\* variant: the month of the delay itself is paid
calculate_cash_payments_capex_inclusive(month_num, capex) ==
    IF capex_delay = 0 THEN capex
    ELSE IF month_num >= capex_delay THEN capex ELSE 0

calculate_cash_payments_capex(month_num, capex) ==
    IF capex_delay = 0 THEN capex
    ELSE IF month_num > capex_delay THEN capex ELSE 0

-----------------------------------------------------------------------------
(* Summary *)

RECURSIVE YearTotal(_, _, _, _)
YearTotal(rows, field, year, i) ==
    IF i > Len(rows) THEN 0
    ELSE (IF rows[i].year_number = year THEN rows[i][field] ELSE 0)
            + YearTotal(rows, field, year, i + 1)

SummaryYears == {1, 2, 3}

\* variant: the last summary year takes every later year as well
year_total_open_ended(rows, field, year) ==
    YearTotal(rows, field, year, 1)
        + (IF year = 3 THEN YearTotal(rows, field, 4, 1) + YearTotal(rows, field, 5, 1) ELSE 0)

\* the year's total as the dict of three keys accumulates it
year_total(rows, field, year) ==
    IF year \in SummaryYears THEN YearTotal(rows, field, year, 1) ELSE 0

update_summary_fields(rows, old) ==
    IF rows = <<>> THEN old
    ELSE [total_revenue_y1 |-> year_total(rows, "revenue", 1),
          total_revenue_y2 |-> year_total(rows, "revenue", 2),
          total_revenue_y3 |-> year_total(rows, "revenue", 3),
          total_gross_profit_y1 |-> year_total(rows, "gross_profit", 1),
          total_gross_profit_y2 |-> year_total(rows, "gross_profit", 2),
          total_gross_profit_y3 |-> year_total(rows, "gross_profit", 3),
          total_net_income_y1 |-> year_total(rows, "net_income", 1),
          total_net_income_y2 |-> year_total(rows, "net_income", 2),
          total_net_income_y3 |-> year_total(rows, "net_income", 3)]

-----------------------------------------------------------------------------
(* calculate_projections *)

total_months ==
    (IF projection_years # 0 THEN projection_years ELSE DefaultProjectionYears) * MonthsPerYear

\* variant: the rows of the previous run are kept
stale_projections == monthly_projections

\* self.monthly_projections = []
cleared_projections == <<>>

\* variant: the balance starts from nothing
zero_cash_balance == Money(0)

initial_cash_balance == Money(cash_on_hand_start)

\* the state the month loop starts from
loop_start ==
    [month_num |-> 1,
     rows |-> cleared_projections,
     locals |-> <<>>,
     cumulative_revenue |-> 0,
     cumulative_cost |-> 0,
     cumulative_gross_profit |-> 0,
     cumulative_opex |-> 0,
     cumulative_net_income |-> 0,
     cash_balance |-> initial_cash_balance,
     carried_instances |-> EmptyDict]

\* one iteration of the month loop; month_num in the result is the loop variable's next value
month_body(st, month_num) ==
    LET month_date == start_date + (month_num - 1)
        year_num == ((month_num - 1) \div MonthsPerYear) + 1
        month_in_year == ((month_num - 1) % MonthsPerYear) + 1
        rev == calculate_monthly_revenue(month_num, year_num, month_in_year,
                                         st.carried_instances)
        revenue == rev.total_revenue
        cor == calculate_monthly_cost(month_num, year_num, month_in_year,
                                      rev.carried_instances, st.rows)
        cost_of_revenue == cor.total_cost
        gross_profit == revenue - cost_of_revenue
        opex == calculate_monthly_opex(month_num, year_num, month_in_year)
        cap == calculate_monthly_capex(month_num, year_num, month_in_year)
        capex == cap.total_capex
        net_income == gross_profit - opex
        cash_receipts == calculate_cash_receipts(month_num, revenue)
        cash_payments_cor == calculate_cash_payments_cor(month_num, cost_of_revenue)
        cash_payments_opex == calculate_cash_payments_opex(month_num, opex)
        cash_payments_capex == calculate_cash_payments_capex(month_num, capex)
        net_cash_flow == cash_receipts - cash_payments_cor - cash_payments_opex
                            - cash_payments_capex
        cash_balance == st.cash_balance + net_cash_flow
        cumulative_revenue == st.cumulative_revenue + revenue
        cumulative_cost == st.cumulative_cost + cost_of_revenue
        cumulative_gross_profit == st.cumulative_gross_profit + gross_profit
        monthly_row ==
            [month_number |-> month_num,
             month_date |-> month_date,
             year_number |-> year_num,
             revenue |-> revenue,
             cost_of_revenue |-> cost_of_revenue,
             gross_profit |-> gross_profit,
             operating_expenses |-> opex,
             capex |-> capex,
             net_income |-> net_income,
             cash_receipts |-> cash_receipts,
             cash_payments |-> cash_payments_cor + cash_payments_opex + cash_payments_capex,
             net_cash_flow |-> net_cash_flow,
             cash_balance |-> cash_balance,
             cumulative_revenue |-> cumulative_revenue,
             cumulative_cost |-> cumulative_cost,
             cumulative_gross_profit |-> cumulative_gross_profit]
    IN  [month_num |-> month_num + 1,
         rows |-> Append(st.rows, monthly_row),
         locals |-> Append(st.locals,
             [month_num |-> month_num,
              carried_before |-> st.carried_instances,
              carried_after_revenue |-> rev.carried_instances,
              carried_after_cost |-> cor.carried_instances,
              instances |-> rev.instances,
              line_revenue |-> rev.line_revenue,
              line_cost |-> cor.line_cost,
              line_capex |-> cap.line_capex,
              cash_payments_cor |-> cash_payments_cor,
              cash_payments_opex |-> cash_payments_opex,
              cash_payments_capex |-> cash_payments_capex]),
         cumulative_revenue |-> cumulative_revenue,
         cumulative_cost |-> cumulative_cost,
         cumulative_gross_profit |-> cumulative_gross_profit,
         cumulative_opex |-> st.cumulative_opex + opex,
         cumulative_net_income |-> st.cumulative_net_income + net_income,
         cash_balance |-> cash_balance,
         carried_instances |-> cor.carried_instances]

\* for month_num in range(1, total_months + 1)
RECURSIVE month_loop(_)
month_loop(st) ==
    IF st.month_num > total_months THEN st
    ELSE month_loop(month_body(st, st.month_num))

calculate_projections ==
    LET final == month_loop(loop_start)
    IN  [rows |-> final.rows,
         locals |-> final.locals,
         summary |-> update_summary_fields(final.rows, summary)]

-----------------------------------------------------------------------------
(* The state machine *)

NoSummary ==
    [total_revenue_y1 |-> 0, total_revenue_y2 |-> 0, total_revenue_y3 |-> 0,
     total_gross_profit_y1 |-> 0, total_gross_profit_y2 |-> 0, total_gross_profit_y3 |-> 0,
     total_net_income_y1 |-> 0, total_net_income_y2 |-> 0, total_net_income_y3 |-> 0]

\* a new document: assumptions entered, scalar parameters unset, nothing computed
Init ==
    /\ start_date \in StartDateChoices
    /\ cash_on_hand_start \in CashOnHandChoices
    /\ revenue_assumptions \in RevenueScenarios
    /\ cost_assumptions \in CostScenarios
    /\ staff_assumptions \in StaffScenarios
    /\ capex_assumptions \in CapexScenarios
    /\ projection_years = 0
    /\ cash_receipt_delay = 0
    /\ cost_of_revenue_delay = 0
    /\ opex_delay = 0
    /\ capex_delay = 0
    /\ monthly_projections = <<>>
    /\ summary = NoSummary
    /\ month_locals = <<>>
    /\ thrown = ""
    /\ runs = 0

\* the caller sets projection_years
SetProjectionYears(y) ==
    /\ projection_years' = y
    /\ runs' = 0
    /\ thrown' = ""
    /\ UNCHANGED <<start_date, cash_on_hand_start, cash_receipt_delay, cost_of_revenue_delay,
                   opex_delay, capex_delay, revenue_assumptions, cost_assumptions,
                   staff_assumptions, capex_assumptions, outputs>>

\* the caller sets the four delays
SetDelays(d) ==
    /\ cash_receipt_delay' = d[1]
    /\ cost_of_revenue_delay' = d[2]
    /\ opex_delay' = d[3]
    /\ capex_delay' = d[4]
    /\ runs' = 0
    /\ thrown' = ""
    /\ UNCHANGED <<start_date, projection_years, cash_on_hand_start, revenue_assumptions,
                   cost_assumptions, staff_assumptions, capex_assumptions, outputs>>

\* a save: validate(), then before_save() unless validate() raised
Save ==
    /\ runs < MaxRuns
    /\ runs' = runs + 1
    /\ thrown' = validate_delays
    /\ IF validate_delays # ""
       THEN UNCHANGED outputs
       ELSE LET result == calculate_projections
            IN  /\ monthly_projections' = result.rows
                /\ month_locals' = result.locals
                /\ summary' = result.summary
    /\ UNCHANGED inputs

Next ==
    \/ \E y \in ProjectionYearsChoices : SetProjectionYears(y)
    \/ \E d \in DelayScenarios : SetDelays(d)
    \/ Save

Spec == Init /\ [][Next]_vars

-----------------------------------------------------------------------------
(* Properties *)

RECURSIVE SumOver(_, _)
SumOver(f, S) ==
    IF S = {} THEN 0
    ELSE LET k == CHOOSE x \in S : TRUE IN f[k] + SumOver(f, S \ {k})

Months == 1..Len(monthly_projections)

\* the rows and the locals are those of a run over the fields as they are now
Fresh == runs >= 1 /\ thrown = ""

RowField(field) == [m \in Months |-> monthly_projections[m][field]]

\* the years all of whose twelve rows exist
FullYears == {y \in 1..(MaxYears + 1) : y * MonthsPerYear <= Len(monthly_projections)}

MonthOf(y, k) == (y - 1) * MonthsPerYear + k

(* ---- C1 ---- *)

\* C1: a save repeated over unchanged fields leaves the rows, the nine summary
\* totals and the carried counts of every month as the save before it left
\* them, and every run starts from an empty carried dict.
C1_Idempotent ==
    [][(runs >= 1 /\ runs' = runs + 1)
          => /\ monthly_projections' = monthly_projections
             /\ summary' = summary
             /\ month_locals' = month_locals
             /\ (month_locals' # <<>> => month_locals'[1].carried_before = EmptyDict)]_vars

C1_Witness ==
    /\ runs = 2
    /\ thrown = ""
    /\ Len(monthly_projections) = MonthsPerYear
    /\ summary.total_revenue_y1 > 0
    /\ DOMAIN month_locals[MonthsPerYear].carried_after_revenue # {}

(* ---- C2 ---- *)

\* C2: every row's cash_balance is cash_on_hand_start plus the net_cash_flow of
\* the rows up to it, each net_cash_flow being cash_receipts less cash_payments;
\* a run leaves one row per month of 1..total_months.
C2_CashBalance ==
    /\ \A m \in Months :
          /\ monthly_projections[m].month_number = m
          /\ monthly_projections[m].net_cash_flow =
                monthly_projections[m].cash_receipts - monthly_projections[m].cash_payments
          /\ monthly_projections[m].cash_balance =
                cash_on_hand_start * Unit + SumOver(RowField("net_cash_flow"), 1..m)
    /\ Fresh => Len(monthly_projections) = (IF total_months > 0 THEN total_months ELSE 0)

C2_Witness ==
    /\ Fresh
    /\ Len(monthly_projections) = MaxYears * MonthsPerYear
    /\ cash_receipt_delay > 0
    /\ \E m \in Months : monthly_projections[m].net_cash_flow < 0
    /\ \E m \in Months : monthly_projections[m].net_cash_flow > 0
    /\ \E m \in Months : monthly_projections[m].cash_payments > 0
                            /\ monthly_projections[m].cash_receipts > 0

(* ---- C3 ---- *)

PercentageLines ==
    {i \in 1..Len(cost_assumptions) :
        /\ cost_assumptions[i].cost_type # ""
        /\ cost_assumptions[i].calculation_type = "Percentage of Revenue"}

\* C3: a 'Percentage of Revenue' cost line contributes, in every month, that
\* month's total revenue times cost_percentage/100.
C3_PercentageOfRevenue ==
    \A m \in Months : \A i \in PercentageLines :
        month_locals[m].line_cost[i] * 100 =
            monthly_projections[m].revenue * cost_assumptions[i].cost_percentage

(* ---- C4 ---- *)

SpreadLines ==
    {i \in 1..Len(revenue_assumptions) :
        /\ revenue_assumptions[i].revenue_type # ""
        /\ revenue_assumptions[i].calculation_type = "One-Time"
        /\ revenue_assumptions[i].implementation_months = 3
        /\ revenue_assumptions[i].price_per_unit = 100
        /\ revenue_assumptions[i].annual_price_increase = 0}

LineRevenue(i) == [m \in Months |-> month_locals[m].line_revenue[i]]

LineInstances(i) == [m \in Months |-> month_locals[m].instances[i]]

SpreadMonths(y) == {MonthOf(y, k) : k \in 1..3}

RestOfYear(y) == {MonthOf(y, k) : k \in 4..MonthsPerYear}

\* C4 as stated: over months 1..3 of a year the line's revenue sums to the
\* carried count of month 3 times the price, and it is 0 in months 4..12.
C4_SpreadSumsToEndCount ==
    \A i \in SpreadLines : \A y \in FullYears :
        /\ SumOver(LineRevenue(i), SpreadMonths(y)) =
              month_locals[MonthOf(y, 3)].instances[i] * (100 * Unit)
        /\ \A m \in RestOfYear(y) : month_locals[m].line_revenue[i] = 0

\* C4 amended: each of months 1..3 of a year recognises a third of that month's
\* carried count times the price, so the three sum to the price times the mean
\* of the three counts; the line's revenue is 0 in months 4..12 of the year.
C4_SpreadSumsToMeanCount ==
    \A i \in SpreadLines : \A y \in FullYears :
        /\ \A m \in SpreadMonths(y) :
              3 * month_locals[m].line_revenue[i] = month_locals[m].instances[i] * (100 * Unit)
        /\ 3 * SumOver(LineRevenue(i), SpreadMonths(y)) =
              SumOver(LineInstances(i), SpreadMonths(y)) * (100 * Unit)
        /\ \A m \in RestOfYear(y) : month_locals[m].line_revenue[i] = 0

C4_Witness ==
    \E i \in SpreadLines :
        /\ 2 \in FullYears
        /\ SumOver(LineRevenue(i), SpreadMonths(2)) > 0
        /\ month_locals[MonthOf(2, 3)].instances[i] > month_locals[MonthOf(2, 1)].instances[i]

(* ---- C5 ---- *)

SingleRecurringLine ==
    /\ Len(revenue_assumptions) = 1
    /\ revenue_assumptions[1].revenue_type # ""
    /\ revenue_assumptions[1].calculation_type = "Recurring"
    /\ revenue_assumptions[1].monthly_new_sales = 10
    /\ revenue_assumptions[1].price_per_unit = 100
    /\ revenue_assumptions[1].annual_price_increase = 0

\* C5 as stated: at month 12 the carried count is 120 and the line's revenue
\* is 1200.
C5_Month12Revenue1200 ==
    (SingleRecurringLine /\ Len(monthly_projections) >= MonthsPerYear)
        => /\ month_locals[12].carried_after_revenue[revenue_assumptions[1].revenue_type] = 120
           /\ month_locals[12].line_revenue[1] = 1200 * Unit

\* C5 amended: at month 12 the carried count is 120 and the line's revenue is
\* 120 * 100 = 12000.
C5_Month12Revenue12000 ==
    (SingleRecurringLine /\ Len(monthly_projections) >= MonthsPerYear)
        => /\ month_locals[12].carried_after_revenue[revenue_assumptions[1].revenue_type] = 120
           /\ month_locals[12].instances[1] = 120
           /\ month_locals[12].line_revenue[1] = 12000 * Unit
           /\ monthly_projections[12].revenue = 12000 * Unit

C5_Witness ==
    /\ SingleRecurringLine
    /\ Fresh
    /\ Len(monthly_projections) = MonthsPerYear
    /\ monthly_projections[12].revenue > 0

(* ---- C6 ---- *)

AssetLines == {i \in 1..Len(capex_assumptions) : capex_assumptions[i].asset_name # ""}

\* the lines whose purchase_month and purchase_year are both set
DatedAssetLines ==
    {i \in AssetLines : /\ capex_assumptions[i].purchase_month \in 1..MonthsPerYear
                        /\ capex_assumptions[i].purchase_year >= 1}

LineCapex(i) == [m \in Months |-> month_locals[m].line_capex[i]]

\* C6 as stated: after a run, each capex line's cost is in the capex of exactly
\* one row, the row of month (purchase_year-1)*12 + purchase_month, and the line
\* adds nothing to any other row.
C6_CapexInExactlyOneRow ==
    Fresh =>
        \A i \in DatedAssetLines :
            LET t == (capex_assumptions[i].purchase_year - 1) * MonthsPerYear
                        + capex_assumptions[i].purchase_month
            IN  /\ t \in Months
                /\ month_locals[t].line_capex[i] = capex_assumptions[i].cost * Unit
                /\ \A m \in Months \ {t} : month_locals[m].line_capex[i] = 0

PurchaseMonth(i) ==
    LET pm == IF capex_assumptions[i].purchase_month = 0 THEN 1
              ELSE capex_assumptions[i].purchase_month
        py == IF capex_assumptions[i].purchase_year = 0 THEN 1
              ELSE capex_assumptions[i].purchase_year
    IN  (py - 1) * MonthsPerYear + pm

\* C6 amended: after a run, a capex line adds its full cost to the row of month
\* (purchase_year-1)*12 + purchase_month (an unset year or month counting as 1)
\* when the run has that month, and nothing to any other row; when that month
\* lies beyond total_months it adds nothing to any row.
C6_CapexInTargetRowIfInRun ==
    Fresh =>
        \A i \in AssetLines :
            /\ \A m \in Months :
                  month_locals[m].line_capex[i] =
                      (IF m = PurchaseMonth(i) THEN capex_assumptions[i].cost * Unit ELSE 0)
            /\ SumOver(LineCapex(i), Months) =
                  (IF PurchaseMonth(i) \in 1..total_months
                   THEN capex_assumptions[i].cost * Unit ELSE 0)
            /\ SumOver(RowField("capex"), Months) >= SumOver(LineCapex(i), Months)

C6_Witness ==
    /\ Fresh
    /\ \E i \in AssetLines :
          /\ capex_assumptions[i].purchase_year = 2
          /\ PurchaseMonth(i) \in Months
          /\ monthly_projections[PurchaseMonth(i)].capex = capex_assumptions[i].cost * Unit
    /\ \E i \in AssetLines :
          /\ PurchaseMonth(i) > Len(monthly_projections)
          /\ Len(monthly_projections) > 0

(* ---- C7 ---- *)

RowsOfYear(rows, y) == {m \in 1..Len(rows) : rows[m].year_number = y}

SumOfYear(rows, field, y) ==
    SumOver([m \in 1..Len(rows) |-> rows[m][field]], RowsOfYear(rows, y))

SummaryOf(rows) ==
    [total_revenue_y1 |-> SumOfYear(rows, "revenue", 1),
     total_revenue_y2 |-> SumOfYear(rows, "revenue", 2),
     total_revenue_y3 |-> SumOfYear(rows, "revenue", 3),
     total_gross_profit_y1 |-> SumOfYear(rows, "gross_profit", 1),
     total_gross_profit_y2 |-> SumOfYear(rows, "gross_profit", 2),
     total_gross_profit_y3 |-> SumOfYear(rows, "gross_profit", 3),
     total_net_income_y1 |-> SumOfYear(rows, "net_income", 1),
     total_net_income_y2 |-> SumOfYear(rows, "net_income", 2),
     total_net_income_y3 |-> SumOfYear(rows, "net_income", 3)]

DelaysInRange == opex_delay \in 0..6 /\ capex_delay \in 0..6

\* C8: a save with opex_delay or capex_delay outside [0,6] raises and leaves
\* every row and every summary total as it was; a save with both inside [0,6]
\* raises nothing.
C8_OutOfRangeDelayStopsRun ==
    [][(runs' = runs + 1)
          => IF DelaysInRange
             THEN thrown' = ""
             ELSE /\ thrown' # ""
                  /\ monthly_projections' = monthly_projections
                  /\ summary' = summary]_vars

C8_Witness ==
    /\ runs >= 1
    /\ thrown # ""
    /\ capex_delay < 0
    /\ monthly_projections # <<>>
    /\ summary.total_revenue_y1 > 0

(* ---- C9 ---- *)

SalesOfType(k) ==
    SumOver([i \in 1..Len(revenue_assumptions) |-> revenue_assumptions[i].monthly_new_sales],
            {i \in 1..Len(revenue_assumptions) : revenue_assumptions[i].revenue_type = k})

CountOf(d, k) == IF k \in DOMAIN d THEN d[k] ELSE 0

\* C9: in every month the revenue step adds to each revenue_type's carried
\* count the monthly_new_sales of the lines of that type and never lowers a
\* count; the cost, opex, capex and cash steps leave every count as it is, so
\* each month starts from the counts the revenue step of the month before left.
C9_CarriedCountsOnlyGrow ==
    \A m \in 1..Len(month_locals) :
        LET l == month_locals[m] IN
        /\ l.carried_before = (IF m = 1 THEN EmptyDict ELSE month_locals[m - 1].carried_after_revenue)
        /\ l.carried_after_cost = l.carried_after_revenue
        /\ DOMAIN l.carried_before \subseteq DOMAIN l.carried_after_revenue
        /\ \A k \in DOMAIN l.carried_after_revenue :
              /\ l.carried_after_revenue[k] = CountOf(l.carried_before, k) + SalesOfType(k)
              /\ l.carried_after_revenue[k] >= CountOf(l.carried_before, k)

C9_Witness ==
    /\ Len(month_locals) >= 2 * MonthsPerYear
    /\ Len(cost_assumptions) > 0
    /\ \E i \in 1..Len(cost_assumptions) :
          /\ cost_assumptions[i].calculation_type = "Per Instance"
          /\ month_locals[13].line_cost[i] > 0
    /\ \E k \in DOMAIN month_locals[13].carried_after_revenue :
          month_locals[13].carried_after_revenue[k] > month_locals[12].carried_after_revenue[k]
    /\ Cardinality(DOMAIN month_locals[13].carried_after_revenue) = 2

(* ---- C10 ---- *)

\* the months whose accrual is settled in cash under a delay of D months
SettledMonths(D) == {m \in Months : D = 0 \/ m > D}

LocalField(field) == [m \in Months |-> month_locals[m][field]]

\* C10: after a run, under a delay D > 0 a category's cash is 0 in each of the
\* first D months and its accrual in every later month, so its cash over the
\* run is the sum of its accruals of the months after D, and the final
\* cash_balance holds no accrual of any category's first D months.
C10_EarlyAccrualsNeverSettled ==
    (Fresh /\ monthly_projections # <<>>) =>
        /\ cash_receipt_delay > 0 =>
              /\ \A m \in Months \ SettledMonths(cash_receipt_delay) :
                    monthly_projections[m].cash_receipts = 0
              /\ SumOver(RowField("cash_receipts"), Months) =
                    SumOver(RowField("revenue"), SettledMonths(cash_receipt_delay))
        /\ cost_of_revenue_delay > 0 =>
              /\ \A m \in Months \ SettledMonths(cost_of_revenue_delay) :
                    month_locals[m].cash_payments_cor = 0
              /\ SumOver(LocalField("cash_payments_cor"), Months) =
                    SumOver(RowField("cost_of_revenue"), SettledMonths(cost_of_revenue_delay))
        /\ opex_delay > 0 =>
              /\ \A m \in Months \ SettledMonths(opex_delay) :
                    month_locals[m].cash_payments_opex = 0
              /\ SumOver(LocalField("cash_payments_opex"), Months) =
                    SumOver(RowField("operating_expenses"), SettledMonths(opex_delay))
        /\ capex_delay > 0 =>
              /\ \A m \in Months \ SettledMonths(capex_delay) :
                    month_locals[m].cash_payments_capex = 0
              /\ SumOver(LocalField("cash_payments_capex"), Months) =
                    SumOver(RowField("capex"), SettledMonths(capex_delay))
        /\ monthly_projections[Len(monthly_projections)].cash_balance =
              cash_on_hand_start * Unit
                + SumOver(RowField("revenue"), SettledMonths(cash_receipt_delay))
                - SumOver(RowField("cost_of_revenue"), SettledMonths(cost_of_revenue_delay))
                - SumOver(RowField("operating_expenses"), SettledMonths(opex_delay))
                - SumOver(RowField("capex"), SettledMonths(capex_delay))

C10_Witness ==
    /\ Fresh
    /\ Len(monthly_projections) >= MonthsPerYear
    /\ capex_delay = 2 /\ opex_delay > 0 /\ cash_receipt_delay > 0 /\ cost_of_revenue_delay > 0
    /\ monthly_projections[2].capex > 0
    /\ monthly_projections[1].revenue > 0
    /\ monthly_projections[1].cost_of_revenue > 0
    /\ monthly_projections[1].operating_expenses > 0
    /\ month_locals[2].cash_payments_capex = 0
    /\ monthly_projections[2].cash_payments = monthly_projections[2].cost_of_revenue

====
